---- MODULE Spec2Model ----
(***************************************************************************)
(* Model of the CFD simulation manager (CFDSimulationManager), the run    *)
(* loop (CFDSimulation.run_async) and the clock part of CFDSimulation.step *)
(* of sync-cfd/api/simulations/cfd.py, under asyncio's single-threaded     *)
(* cooperative scheduler.                                                  *)
(*                                                                         *)
(* A task runs without interruption from the moment the event loop resumes *)
(* it until its next await; manager operations are synchronous handlers    *)
(* that run between two such segments.                                     *)
(***************************************************************************)
EXTENDS Integers, Naturals, Sequences, FiniteSets, TLC

\* ------------------------------------------------------------------ bounds
MaxEvents == 4         \* creates, successful starts, direct steps and clock ticks in one run
MaxTimeSteps == 2      \* config.time_steps of the simulations created
MaxRunSteps == 101     \* config.time_steps of the long run followed in SpecRun
MaxFieldSteps == 2     \* step() calls on the instance followed in SpecFields, direct ones in SpecViews
MaxDtSteps == 3        \* step() calls on the instance followed in SpecDt
MaxPairSteps == 3      \* step counter up to which direct steps are made in SpecPair

\* ------------------------------------------------------- program constants
CallbackEvery == 10
SnapshotEvery == 50
YieldEvery == 100
MaxPoints == 200       \* points traced on one streamline

Names == {"a"}
\* sim_id values: the name and the second of creation
AllIds == Names \X (0..(MaxEvents + 1))
NoId == <<"", 0>>

VARIABLES
    simulations,    \* CFDSimulationManager.simulations: id -> object
    running_tasks,  \* CFDSimulationManager.running_tasks: id -> task
    heap,           \* the CFDSimulation objects that exist
    tasks,          \* the asyncio tasks that exist
    made,           \* how many objects, tasks and direct steps were made so far
    clock,          \* int(time.time())
    lastOp          \* the last operation and what it returned or raised

vars == <<simulations, running_tasks, heap, tasks, made, clock, lastOp>>

\* ------------------------------------------------------------- the solver
\* Field values are IEEE doubles: a finite number, NaN, +Inf or -Inf. The
\* finite values the model uses are whole numbers.
Fin(n) == [k |-> "fin", v |-> n]
NaN == [k |-> "nan", v |-> 0]
PosInf == [k |-> "inf", v |-> 1]
NegInf == [k |-> "inf", v |-> -1]

isnan(x) == x.k = "nan"
isinf(x) == x.k = "inf"
isfinite(x) == x.k = "fin"

\* x <= y for two values that are not NaN
LessEq(x, y) ==
    IF isinf(x) THEN x.v = -1 \/ y = PosInf
    ELSE IF isinf(y) THEN y.v = 1
    ELSE x.v <= y.v

\* np.maximum / np.minimum: NaN if either argument is NaN
maximum(x, y) == IF isnan(x) \/ isnan(y) THEN NaN ELSE IF LessEq(x, y) THEN y ELSE x
minimum(x, y) == IF isnan(x) \/ isnan(y) THEN NaN ELSE IF LessEq(x, y) THEN x ELSE y

\* np.clip(x, a_min, a_max) is minimum(maximum(x, a_min), a_max), also when
\* a_min > a_max
clip(x, a_min, a_max) == minimum(maximum(x, a_min), a_max)

\* np.nan_to_num(x, nan=, posinf=, neginf=)
nan_to_num(x, nan, posinf, neginf) ==
    IF isnan(x) THEN nan
    ELSE IF x = PosInf THEN posinf
    ELSE IF x = NegInf THEN neginf
    ELSE x

\* x - y and n * x (n a whole number > 0) in IEEE arithmetic
Minus(x, y) ==
    IF isnan(x) \/ isnan(y) THEN NaN
    ELSE IF isinf(x) THEN (IF y = x THEN NaN ELSE x)
    ELSE IF isinf(y) THEN [k |-> "inf", v |-> -y.v]
    ELSE Fin(x.v - y.v)

Times(n, x) == IF isfinite(x) THEN Fin(n * x.v) ELSE x

\* abs(x) of a finite value
Abs(n) == IF n < 0 THEN -n ELSE n

\* Time steps are fractions <<numerator, denominator>> in lowest terms;
\* <<1, 0>> stands for the quotient by the 1e-10 that replaces a zero
\* velocity, which is larger than every other time step.
RECURSIVE GCD(_, _)
GCD(a, b) == IF b = 0 THEN a ELSE GCD(b, a % b)

Frac(n, d) == <<n \div GCD(Abs(n), d), d \div GCD(Abs(n), d)>>
FracTimes(a, b) == Frac(a[1] * b[1], a[2] * b[2])
FracLessEq(a, b) == a[1] * b[2] <= b[1] * a[2]
FracMin(a, b) == IF FracLessEq(a, b) THEN a ELSE b
FracMax(a, b) == IF FracLessEq(a, b) THEN b ELSE a

\* the grid: cell <<j, i>> is row j (y), column i (x)
Cells(nx, ny) == (0..(ny - 1)) \X (0..(nx - 1))

\* a Python slice lo:hi of a dimension of n entries (negative indices count
\* from the end)
SliceIndex(k, n) == IF k < 0 THEN (IF k + n < 0 THEN 0 ELSE k + n) ELSE (IF k > n THEN n ELSE k)
Slice(lo, hi, n) == {k \in 0..(n - 1) : SliceIndex(lo, n) <= k /\ k < SliceIndex(hi, n)}

\* int(fraction * n) for a fraction >= 0
IntOf(frac, n) == (frac[1] * n) \div frac[2]

Min(a, b) == IF a <= b THEN a ELSE b
Max(a, b) == IF a <= b THEN b ELSE a

\* the airfoil test (x_rot / a)^2 + (y_rot / b)^2 <= 1 with a = 2 * radius,
\* b = 0.3 * radius, cos = sqrt(3)/2 and sin = 1/2, for X = x - cx and
\* Y = y - cy: multiplied out it reads W * sqrt(3) <= P with
\* P = 144 * radius^2 - 427 * X^2 - 1209 * Y^2 and W = -782 * X * Y.
\* With radius = 0 both quotients are by zero and the test is false.
InEllipse(X, Y, radius) ==
    LET P == 144 * radius * radius - 427 * X * X - 1209 * Y * Y
        W == -782 * X * Y
    IN /\ radius > 0
       /\ IF W >= 0
          THEN P >= 0 /\ 3 * W * W <= P * P
          ELSE P >= 0 \/ 3 * W * W >= P * P

\* _create_obstacle
_create_obstacle(config) ==
    LET nx == config.grid_size_x
        ny == config.grid_size_y
        cx == IntOf(config.obstacle_position[1], nx)
        cy == IntOf(config.obstacle_position[2], ny)
        radius == IntOf(config.obstacle_size, Min(nx, ny))
    IN [x \in Cells(nx, ny) |->
          CASE config.obstacle_type = "cylinder" ->
                 (x[2] - cx) * (x[2] - cx) + (x[1] - cy) * (x[1] - cy) <= radius * radius
            [] config.obstacle_type = "square" ->
                 /\ x[1] \in Slice(cy - radius, cy + radius, ny)
                 /\ x[2] \in Slice(cx - radius, cx + radius, nx)
            [] config.obstacle_type = "airfoil" ->
                 InEllipse(x[2] - cx, x[1] - cy, radius)
            [] OTHER -> FALSE]

\* CFDSimulation.__init__ with the flow fields. u_star and v_star are the
\* intermediate velocities of the last step(), which are locals of step();
\* before the first step they are shown as zeros.
CFDSimulation(config) ==
    [config |-> config,
     current_step |-> 0,
     current_time |-> 0,
     fields_step |-> 0,
     fields_time |-> 0,
     results_history |-> <<>>,
     nx |-> config.grid_size_x,
     ny |-> config.grid_size_y,
     u |-> [x \in Cells(config.grid_size_x, config.grid_size_y) |-> Fin(config.inlet_velocity)],
     v |-> [x \in Cells(config.grid_size_x, config.grid_size_y) |-> Fin(0)],
     p |-> [x \in Cells(config.grid_size_x, config.grid_size_y) |-> Fin(0)],
     vorticity |-> [x \in Cells(config.grid_size_x, config.grid_size_y) |-> Fin(0)],
     obstacle_mask |-> _create_obstacle(config),
     dt |-> config.dt,
     u_star |-> [x \in Cells(config.grid_size_x, config.grid_size_y) |-> Fin(0)],
     v_star |-> [x \in Cells(config.grid_size_x, config.grid_size_y) |-> Fin(0)]]

\* _apply_boundary_conditions: the assignments in the order of the source,
\* each overwriting the ones before it
_apply_boundary_conditions(s) ==
    LET last == s.nx - 1
        \* f[:, 0] = value
        Inlet(f, value, x) == IF x[2] = 0 THEN value ELSE f[x]
        \* f[:, -1] = f[:, -2]
        Outlet(f, value, x) ==
            IF x[2] = last THEN Inlet(f, value, <<x[1], last - 1>>) ELSE Inlet(f, value, x)
        \* f[0, :] = 0; f[-1, :] = 0
        Walls(f, value, x) ==
            IF x[1] = 0 \/ x[1] = s.ny - 1 THEN Fin(0) ELSE Outlet(f, value, x)
        \* f[self.obstacle_mask] = 0
        Obstacle(f, value, x) ==
            IF s.obstacle_mask[x] THEN Fin(0) ELSE Walls(f, value, x)
    IN [s EXCEPT
          !.u = [x \in DOMAIN s.u |-> Obstacle(s.u, Fin(s.config.inlet_velocity), x)],
          !.v = [x \in DOMAIN s.v |-> Obstacle(s.v, Fin(0), x)],
          !.p = [x \in DOMAIN s.p |-> IF x[2] = last THEN Fin(0) ELSE s.p[x]]]

\* np.gradient(f, 1/n, axis), doubled: n * (f[k+1] - f[k-1]) inside,
\* 2 * n * (f[1] - f[0]) and 2 * n * (f[n-1] - f[n-2]) at the two ends
\* in cell x
Gradient2(f, axis, n, x) ==
    LET Along(k) == IF axis = 1 THEN f[<<x[1], k>>] ELSE f[<<k, x[2]>>]
        k == IF axis = 1 THEN x[2] ELSE x[1]
    IN IF k = 0 THEN Times(2 * n, Minus(Along(1), Along(0)))
       ELSE IF k = n - 1 THEN Times(2 * n, Minus(Along(n - 1), Along(n - 2)))
       ELSE Times(n, Minus(Along(k + 1), Along(k - 1)))

\* _compute_vorticity: dv/dx - du/dy. The field is kept doubled, so that
\* the halves of the central differences stay whole numbers.
_compute_vorticity(s) ==
    LET dvdx(x) == Gradient2(s.v, 1, s.nx, x)
        dudy(x) == Gradient2(s.u, 0, s.ny, x)
    IN [s EXCEPT !.vorticity = [x \in DOMAIN s.u |-> Minus(dvdx(x), dudy(x))]]

\* np.max(np.abs(f)) of a field without NaN or Inf
MaxAbs(f) == CHOOSE m \in {Abs(f[x].v) : x \in DOMAIN f} :
                \A x \in DOMAIN f : Abs(f[x].v) <= m

\* cfl_number * (1/n) / (m + 1e-10)
ConvectiveLimit(cfl, n, m) ==
    IF m = 0 THEN <<1, 0>> ELSE FracTimes(cfl, Frac(1, n * m))

\* _calculate_cfl_timestep without its last line, `min(dt_max, self.config.dt)`
_calculate_cfl_timestep_NoCeiling(s) ==
    LET nu == FracTimes(s.config.viscosity, Frac(1, s.config.fluid_density))
        dt_conv == FracMin(ConvectiveLimit(s.config.cfl_number, s.nx, MaxAbs(s.u)),
                           ConvectiveLimit(s.config.cfl_number, s.ny, MaxAbs(s.v)))
        dt_visc == FracTimes(Frac(1, 4 * Max(s.nx, s.ny) * Max(s.nx, s.ny)),
                             Frac(nu[2], nu[1]))
        dt_max == FracMin(dt_conv, dt_visc)
        slower == FracMin(dt_max, FracTimes(Frac(12, 10), s.dt))
    IN FracMax(slower, FracTimes(Frac(5, 10), s.dt))

\* _calculate_cfl_timestep; the 1e-10 added to nu is left out
_calculate_cfl_timestep(s) ==
    LET nu == FracTimes(s.config.viscosity, Frac(1, s.config.fluid_density))
        dt_conv == FracMin(ConvectiveLimit(s.config.cfl_number, s.nx, MaxAbs(s.u)),
                           ConvectiveLimit(s.config.cfl_number, s.ny, MaxAbs(s.v)))
        dt_visc == FracTimes(Frac(1, 4 * Max(s.nx, s.ny) * Max(s.nx, s.ny)),
                             Frac(nu[2], nu[1]))
        dt_max == FracMin(dt_conv, dt_visc)
        slower == FracMin(dt_max, FracTimes(Frac(12, 10), s.dt))
        faster == FracMax(slower, FracTimes(Frac(5, 10), s.dt))
    IN FracMin(faster, s.config.dt)

\* _apply_stability_limits that clips and does not call np.nan_to_num
_apply_stability_limits_ClipOnly(s) ==
    LET max_allowed_velocity == Fin(10 * s.config.inlet_velocity)
        lowest == Fin(-(10 * s.config.inlet_velocity))
        Limit(f) == [x \in DOMAIN f |-> clip(f[x], lowest, max_allowed_velocity)]
    IN [s EXCEPT !.u = Limit(s.u), !.v = Limit(s.v)]

\* _apply_stability_limits
_apply_stability_limits(s) ==
    LET max_allowed_velocity == Fin(10 * s.config.inlet_velocity)
        lowest == Fin(-(10 * s.config.inlet_velocity))
        Limit(f) == [x \in DOMAIN f |->
                       nan_to_num(clip(f[x], lowest, max_allowed_velocity),
                                  Fin(0), max_allowed_velocity, lowest)]
    IN [s EXCEPT
          !.u = Limit(s.u),
          !.v = Limit(s.v),
          !.p = [x \in DOMAIN s.p |-> nan_to_num(s.p[x], Fin(0), Fin(1000), Fin(-1000))]]

\* step(), lines 200-206: the time step of this step
StepDt(s) ==
    [s EXCEPT !.dt = IF s.config.use_adaptive_dt
                     THEN _calculate_cfl_timestep(s)
                     ELSE s.config.dt]

\* step(), lines 209-241 (stability limits on the old fields, gradients,
\* Laplacian, prediction) leave u_star and v_star as some arrays of doubles,
\* raw.u_star and raw.v_star; lines 243-251 then write the boundary values
\* into them: obstacle, inlet, walls, each overwriting the ones before it.
Predicted(s, raw) ==
    LET Wall(x) == x[1] = 0 \/ x[1] = s.ny - 1
        Star(f, value, x) ==
            IF Wall(x) THEN Fin(0)
            ELSE IF x[2] = 0 THEN value
            ELSE IF s.obstacle_mask[x] THEN Fin(0)
            ELSE f[x]
    IN [s EXCEPT
          !.u_star = [x \in DOMAIN s.u |-> Star(raw.u_star, Fin(s.config.inlet_velocity), x)],
          !.v_star = [x \in DOMAIN s.v |-> Star(raw.v_star, Fin(0), x)]]

\* a corrector that adds the cells in which it computed NaN to the obstacle
Corrected_MasksNaN(s, raw) ==
    [s EXCEPT !.u = raw.u, !.v = raw.v, !.p = raw.p,
              !.obstacle_mask = [x \in DOMAIN s.u |-> s.obstacle_mask[x] \/ isnan(raw.u[x])]]

\* step(), lines 253-267 (pressure solve, corrector) leave u, v and p as
\* some arrays of doubles: `raw` is what they computed.
Corrected(s, raw) == [s EXCEPT !.u = raw.u, !.v = raw.v, !.p = raw.p]

\* step(), lines 200-279, on an instance with its flow fields: each
\* statement works on the result of the one before. The arrays then hold
\* the fields of step current_step + 1 at time current_time + dt.
StepFields(s, raw) ==
    CHOOSE after \in
        {[vortical EXCEPT !.fields_step = @ + 1, !.fields_time = @ + 1] :
            vortical \in {_compute_vorticity(limited) :
                limited \in {_apply_stability_limits(bounded) :
                    bounded \in {_apply_boundary_conditions(Corrected(predicted, raw)) :
                        predicted \in {Predicted(timed, raw) :
                            timed \in {StepDt(s)}}}}}} : TRUE

\* the sum of |f| over the cells S
RECURSIVE Total(_, _)
Total(f, S) ==
    IF S = {} THEN 0
    ELSE LET x == CHOOSE y \in S : TRUE
         IN Abs(f[x].v) + Total(f, S \ {x})

\* a solver that keeps a scratch counter at module level, shared by all
\* instances and advanced by every direct step
Solved_SharedScratch(s) ==
    LET d == Total(s.u, DOMAIN s.u) + 2 * Total(s.v, DOMAIN s.v)
                + 3 * Total(s.p, DOMAIN s.p) + s.dt[1] + s.dt[2]
                + Abs(s.config.inlet_velocity) + made.steps
        cell == <<d % s.ny, d % s.nx>>
        value == CASE d % 4 = 0 -> NaN
                   [] d % 4 = 1 -> PosInf
                   [] d % 4 = 2 -> Fin(-50)
                   [] OTHER -> Fin(1)
        a == [x \in DOMAIN s.u |-> IF x = cell THEN value ELSE Fin(1 + (d % 3))]
    IN [u |-> a, v |-> a, p |-> a, u_star |-> a, v_star |-> a]

\* step(), lines 209-267, computes its arrays from self.u, self.v, self.p,
\* self.dt, the configuration and the mask of the instance it is called on,
\* and from nothing else: no random numbers, no clock, no module-level or
\* class-level data. The floating-point arithmetic is not reproduced; Solved
\* stands for it as a function of the same inputs that leaves a disturbance
\* (NaN, an infinity, a value beyond the limit, or none) in one cell.
Solved(s) ==
    LET d == Total(s.u, DOMAIN s.u) + 2 * Total(s.v, DOMAIN s.v)
                + 3 * Total(s.p, DOMAIN s.p) + s.dt[1] + s.dt[2]
                + Abs(s.config.inlet_velocity)
        cell == <<d % s.ny, d % s.nx>>
        value == CASE d % 4 = 0 -> NaN
                   [] d % 4 = 1 -> PosInf
                   [] d % 4 = 2 -> Fin(-50)
                   [] OTHER -> Fin(1)
        a == [x \in DOMAIN s.u |-> IF x = cell THEN value ELSE Fin(1 + (d % 3))]
    IN [u |-> a, v |-> a, p |-> a, u_star |-> a, v_star |-> a]

\* ------------------------------------------------------------- CFDSimulation
\* SimulationConfig: the fields the manager and the run loop read.
SimulationConfig(name, time_steps) == [name |-> name, time_steps |-> time_steps]

\* CFDSimulation.__init__. current_time is kept as the number of dt
\* increments added to it (0 = the initial 0.0). fields_step / fields_time
\* say which step, and which time, the u, v, p, vorticity arrays belong to
\* (0 = the initial fields).
NewSimulation(config) ==
    [config |-> config,
     current_step |-> 0,
     current_time |-> 0,
     fields_step |-> 0,
     fields_time |-> 0,
     results_history |-> <<>>]

\* step(), lines 200-279: choose dt, then predictor, projection, corrector,
\* boundary conditions, stability limits, vorticity: the arrays now hold the
\* fields of step current_step + 1 at time current_time + dt. Where the
\* instance is followed without its arrays, only that is recorded.
StepFieldsOf(s) ==
    IF "u" \in DOMAIN s
    THEN StepFields(s, Solved(s))
    ELSE [s EXCEPT !.fields_step = @ + 1, !.fields_time = @ + 1]

\* a step() that counts the step but forgets `self.current_time += dt`
StepClockOf_SkipsTime(s) ==
    [s EXCEPT !.current_step = @ + 1]

\* step(), lines 281-283: current_step += 1; current_time += dt
StepClockOf(s) ==
    [s EXCEPT !.current_step = @ + 1, !.current_time = @ + 1]

\* one whole synchronous step() call
StepOf(s) == StepClockOf(StepFieldsOf(s))

\* get_current_state: the step and time it reports
get_current_state(s) == [step |-> s.current_step, time |-> s.current_time]

\* ------------------------------------------------------------------ manager
TaskIds == DOMAIN tasks

\* asyncio.Task.done()
done(t) == tasks[t].state # "pending"

\* is_running without the `.done()` test
is_running_NoDone(id) == id \in DOMAIN running_tasks

get_simulation(id) == IF id \in DOMAIN simulations THEN simulations[id] ELSE 0

is_running(id) == id \in DOMAIN running_tasks /\ ~done(running_tasks[id])

list_simulations ==
    { [id |-> id,
       name |-> heap[simulations[id]].config.name,
       status |-> IF is_running(id) THEN "running" ELSE "stopped",
       current_step |-> heap[simulations[id]].current_step,
       total_steps |-> heap[simulations[id]].config.time_steps] : id \in DOMAIN simulations }

\* a cancel() that is never made: the task is only forgotten
cancel_Missing(ts, t) == ts

\* asyncio.Task.cancel(): a finished task is left alone; a pending one is
\* marked and gets CancelledError at the await it is suspended at.
cancel(ts, t) ==
    IF ts[t].state = "pending"
    THEN [ts EXCEPT ![t].must_cancel = TRUE]
    ELSE ts

Put(f, k, v) == [x \in (DOMAIN f) \cup {k} |-> IF x = k THEN v ELSE f[x]]
Drop(f, k) == [x \in (DOMAIN f) \ {k} |-> f[x]]
Restrict(f, S) == [x \in (DOMAIN f) \cap S |-> f[x]]
Empty == [x \in {} |-> 0]

\* Python frees an object when nothing refers to it any more. A simulation is
\* referred to by the registry and by the coroutine of an unfinished task; a
\* task by the task registry and, while unfinished, by the event loop.
Pending(ts) == {t \in DOMAIN ts : ts[t].state = "pending"}
LiveTasks(rt, ts) == {rt[i] : i \in DOMAIN rt} \cup Pending(ts)
LiveObjs(sims, ts) == {sims[i] : i \in DOMAIN sims} \cup {ts[t].sim : t \in Pending(ts)}

\* the next state of the registries, the objects and the tasks
Becomes(sims, rt, hp, ts) ==
    /\ simulations' = sims
    /\ running_tasks' = rt
    /\ tasks' = Restrict(ts, LiveTasks(rt, ts))
    /\ heap' = Restrict(hp, LiveObjs(sims, ts))

\* what the last operation was, on which id, what it returned or raised, and
\* (for a resumption by the event loop) which task ran
Op(op, id, result) == [op |-> op, id |-> id, result |-> result, task |-> 0]

\* what the run has used of MaxEvents
Events == made.objs + made.tasks + made.steps + clock

\* the ids a caller passes: those of this second and earlier, which may be
\* registered, and one that cannot be registered yet
CallIds == Names \X (0..(clock + 1))

Init ==
    /\ simulations = Empty
    /\ running_tasks = Empty
    /\ heap = Empty
    /\ tasks = Empty
    /\ made = [objs |-> 0, tasks |-> 0, steps |-> 0]
    /\ clock = 0
    /\ lastOp = Op("init", NoId, "ok")

\* time.time() moves on to the next second
Tick ==
    /\ Events < MaxEvents
    /\ clock' = clock + 1
    /\ lastOp' = Op("tick", NoId, "ok")
    /\ UNCHANGED <<simulations, running_tasks, heap, tasks, made>>

\* create_simulation: sim_id = f"sim_{config.name}_{int(time.time())}"
sim_id(name) == <<name, clock>>

create_simulation(name, time_steps) ==
    /\ Events < MaxEvents
    /\ made' = [made EXCEPT !.objs = @ + 1]
    /\ LET o == made.objs + 1
       IN Becomes(Put(simulations, sim_id(name), o),
                  running_tasks,
                  Put(heap, o, NewSimulation(SimulationConfig(name, time_steps))),
                  tasks)
    /\ lastOp' = Op("create", sim_id(name), "ok")
    /\ UNCHANGED clock

\* start_simulation without the `sim_id in self.running_tasks` check
StartResult_NoRunningCheck(id) ==
    IF id \notin DOMAIN simulations THEN "NotFound" ELSE "ok"

\* start_simulation without the `if not sim` check: None.run_async raises
StartResult_NoLookup(id) ==
    IF id \in DOMAIN running_tasks THEN "Conflict"
    ELSE IF id \notin DOMAIN simulations THEN "AttributeError"
    ELSE "ok"

\* the outcome of start_simulation's two checks
StartResult(id) ==
    IF id \notin DOMAIN simulations THEN "NotFound"
    ELSE IF id \in DOMAIN running_tasks THEN "Conflict"
    ELSE "ok"

NewTask(id, callback) ==
    [sim |-> simulations[id],
     for_id |-> id,
     callback |-> callback,
     state |-> "pending",
     pc |-> "start",
     step |-> 0,
     must_cancel |-> FALSE,
     nsteps |-> 0,
     log |-> <<>>]

start_simulation(id, callback) ==
    /\ lastOp' = Op("start", id, StartResult(id))
    /\ IF StartResult(id) = "ok"
       THEN /\ Events < MaxEvents
            /\ made' = [made EXCEPT !.tasks = @ + 1]
            /\ LET t == made.tasks + 1
               IN Becomes(simulations,
                          Put(running_tasks, id, t),
                          heap,
                          Put(tasks, t, NewTask(id, callback)))
       ELSE UNCHANGED <<simulations, running_tasks, heap, tasks, made>>
    /\ UNCHANGED clock

\* stop_simulation with `del self.running_tasks[sim_id]` outside the `if`
StopResult_Unguarded(id) == IF id \in DOMAIN running_tasks THEN "ok" ELSE "KeyError"

\* delete_simulation with `del self.simulations[sim_id]` outside the `if`
DeleteResult_Unguarded(id) == IF id \in DOMAIN simulations THEN "ok" ELSE "KeyError"

\* stop_simulation and delete_simulation return None and raise nothing
StopResult(id) == "ok"
DeleteResult(id) == "ok"

\* stop_simulation that cancels the task but keeps it registered
stop_simulation_KeepsTask(id) ==
    /\ lastOp' = Op("stop", id, StopResult(id))
    /\ IF id \in DOMAIN running_tasks
       THEN Becomes(simulations,
                    running_tasks,
                    heap,
                    cancel(tasks, running_tasks[id]))
       ELSE UNCHANGED <<simulations, running_tasks, heap, tasks>>
    /\ UNCHANGED <<made, clock>>

stop_simulation(id) ==
    /\ lastOp' = Op("stop", id, StopResult(id))
    /\ IF id \in DOMAIN running_tasks
       THEN Becomes(simulations,
                    Drop(running_tasks, id),
                    heap,
                    cancel(tasks, running_tasks[id]))
       ELSE UNCHANGED <<simulations, running_tasks, heap, tasks>>
    /\ UNCHANGED <<made, clock>>

\* delete_simulation that cancels the task and leaves it in running_tasks
delete_simulation_KeepsTask(id) ==
    /\ lastOp' = Op("delete", id, DeleteResult(id))
    /\ Becomes(IF id \in DOMAIN simulations THEN Drop(simulations, id) ELSE simulations,
               running_tasks,
               heap,
               IF id \in DOMAIN running_tasks
               THEN cancel(tasks, running_tasks[id])
               ELSE tasks)
    /\ UNCHANGED <<made, clock>>

\* delete_simulation that removes the instance without stopping its task
delete_simulation_NoStop(id) ==
    /\ lastOp' = Op("delete", id, DeleteResult(id))
    /\ Becomes(IF id \in DOMAIN simulations THEN Drop(simulations, id) ELSE simulations,
               running_tasks,
               heap,
               tasks)
    /\ UNCHANGED <<made, clock>>

delete_simulation(id) ==
    /\ lastOp' = Op("delete", id, DeleteResult(id))
    /\ Becomes(IF id \in DOMAIN simulations THEN Drop(simulations, id) ELSE simulations,
               IF id \in DOMAIN running_tasks THEN Drop(running_tasks, id) ELSE running_tasks,
               heap,
               IF id \in DOMAIN running_tasks
               THEN cancel(tasks, running_tasks[id])
               ELSE tasks)
    /\ UNCHANGED <<made, clock>>

\* a step action that refuses an instance whose run loop is active
DirectStepResult_RefusesRunning(id) ==
    IF id \notin DOMAIN simulations THEN "NotFound"
    ELSE IF is_running(id) THEN "Conflict"
    ELSE "ok"

\* control_cfd_simulation, action "step": a direct synchronous sim.step()
DirectStepResult(id) == IF id \notin DOMAIN simulations THEN "NotFound" ELSE "ok"

control_step(id) ==
    /\ lastOp' = Op("step", id, DirectStepResult(id))
    /\ IF DirectStepResult(id) = "ok"
       THEN /\ Events < MaxEvents
            /\ made' = [made EXCEPT !.steps = @ + 1]
            /\ heap' = [heap EXCEPT ![simulations[id]] = StepOf(@)]
       ELSE UNCHANGED <<heap, made>>
    /\ UNCHANGED <<simulations, running_tasks, tasks, clock>>

\* ------------------------------------------------------------------ run_async
\* a step() that gives up the processor between its field update and its
\* clock update
AwaitPoints_MidStep == {"start", "await_cb", "sleep", "step_clock"}

\* The places where a run-loop task is suspended and the event loop runs
\* other work: before its first resumption, in `await callback(state)` and in
\* `await asyncio.sleep(0.001)`.
AwaitPoints == {"start", "await_cb", "sleep"}

\* A configuration c = [task, sim] is a task's coroutine state with the
\* simulation object it steps. Each operator below executes the statement
\* the task is at and gives the set of configurations that can follow.
At(c, pc, step) == [c EXCEPT !.task.pc = pc, !.task.step = step]

\* the coroutine is over (its loop variable is gone); what it was started
\* with and what it did stay on record
Ended(c, state) ==
    [c EXCEPT !.task = [@ EXCEPT !.state = state, !.pc = "end", !.step = 0]]

\* the run loop did `what` in iteration c.task.step
Logged(c, what) == [c EXCEPT !.task.log = Append(@, <<what, c.task.step>>)]

\* first resumption: enter `for step in range(self.config.time_steps)`
ExecStart(c) == {At(c, "loop", 0)}

\* loop head: the next iteration, or `return self.results_history`
ExecLoop(c) ==
    IF c.task.step < c.sim.config.time_steps
    THEN {At(c, "step_fields", c.task.step)}
    ELSE {Ended(c, "finished")}

\* self.step(), lines 200-279
ExecStepFields(c) ==
    {[At(c, "step_clock", c.task.step) EXCEPT !.sim = StepFieldsOf(@)]}

\* self.step(), lines 281-283
ExecStepClock(c) ==
    {[Logged(At(c, "callback", c.task.step), "step")
         EXCEPT !.sim = StepClockOf(@), !.task.nsteps = @ + 1]}

\* a callback due after every 10th completed step: `(step + 1) % 10 == 0`
ExecCallback_OffByOne(c) ==
    IF c.task.callback /\ (c.task.step + 1) % CallbackEvery = 0
    THEN {Logged(At(c, "await_cb", c.task.step), "callback"),
          Logged(Logged(At(c, "snapshot", c.task.step), "callback"), "returned")}
    ELSE {At(c, "snapshot", c.task.step)}

\* a callback handed to the event loop and not awaited:
\* `asyncio.create_task(callback(state))`
ExecCallback_NoAwait(c) ==
    IF c.task.callback /\ c.task.step % CallbackEvery = 0
    THEN {Logged(At(c, "snapshot", c.task.step), "callback")}
    ELSE {At(c, "snapshot", c.task.step)}

\* `if callback and step % 10 == 0: await callback(self.get_current_state())`:
\* the callback suspends (a network send) or returns at once
ExecCallback(c) ==
    IF c.task.callback /\ c.task.step % CallbackEvery = 0
    THEN {Logged(At(c, "await_cb", c.task.step), "callback"),
          Logged(Logged(At(c, "snapshot", c.task.step), "callback"), "returned")}
    ELSE {At(c, "snapshot", c.task.step)}

\* the awaited callback returns, or raises (the send fails) and run_async
\* ends with that error
ExecAwaitCallback(c) ==
    {Logged(At(c, "snapshot", c.task.step), "returned"),
     Ended(Logged(c, "raised"), "failed")}

Snapshot(s, step) ==
    [step |-> step, time |-> s.current_time, state |-> get_current_state(s)]

\* `if step % 50 == 0: self.results_history.append({...})`
ExecSnapshot(c) ==
    IF c.task.step % SnapshotEvery = 0
    THEN {[Logged(At(c, "yield", c.task.step), "snapshot")
              EXCEPT !.sim.results_history = Append(@, Snapshot(c.sim, c.task.step))]}
    ELSE {At(c, "yield", c.task.step)}

\* `if step % 100 == 0: await asyncio.sleep(0.001)`
ExecYield(c) ==
    IF c.task.step % YieldEvery = 0
    THEN {Logged(At(c, "sleep", c.task.step), "yield")}
    ELSE {At(c, "loop", c.task.step + 1)}

\* a sleep that never ends: the task stays suspended in it
ExecSleep_Never(c) == {c}

\* the sleep is over: next iteration
ExecSleep(c) == {At(c, "loop", c.task.step + 1)}

Exec(c) ==
    CASE c.task.pc = "start" -> ExecStart(c)
      [] c.task.pc = "loop" -> ExecLoop(c)
      [] c.task.pc = "step_fields" -> ExecStepFields(c)
      [] c.task.pc = "step_clock" -> ExecStepClock(c)
      [] c.task.pc = "callback" -> ExecCallback(c)
      [] c.task.pc = "await_cb" -> ExecAwaitCallback(c)
      [] c.task.pc = "snapshot" -> ExecSnapshot(c)
      [] c.task.pc = "yield" -> ExecYield(c)
      [] c.task.pc = "sleep" -> ExecSleep(c)

\* the coroutine is suspended at an await or is over
Suspended(c) == c.task.state # "pending" \/ c.task.pc \in AwaitPoints

\* the coroutine executes up to n statements, fewer if it is suspended or
\* over before (the first half of them, then the rest)
RECURSIVE RunFor(_, _)
RunFor(c, n) ==
    IF Suspended(c) \/ n = 0 THEN {c}
    ELSE IF n = 1 THEN Exec(c)
    ELSE UNION {RunFor(d, n - (n \div 2)) : d \in RunFor(c, n \div 2)}

\* more statements than the coroutine can still execute: at most seven in
\* each iteration that remains, and the loop's exit
StatementsLeft(c) == 7 * (c.sim.config.time_steps - c.task.step + 1)

\* the coroutine runs on until it is suspended at an await or is over
RunOn(c) == RunFor(c, StatementsLeft(c))

\* one resumption of a suspended task by the event loop
Segment(c) == UNION {RunOn(d) : d \in Exec(c)}

\* the event loop resumed task t; for a cancelled task, result is the
\* statement at which CancelledError was raised
Resumed(t, op, result) == [op |-> op, id |-> tasks[t].for_id, result |-> result, task |-> t]

\* the event loop resumes task t, which was not cancelled
TaskRuns(t) ==
    /\ tasks[t].state = "pending"
    /\ ~tasks[t].must_cancel
    /\ \E d \in Segment([task |-> tasks[t], sim |-> heap[tasks[t].sim]]) :
          Becomes(simulations, running_tasks,
                  [heap EXCEPT ![tasks[t].sim] = d.sim],
                  [tasks EXCEPT ![t] = d.task])
    /\ lastOp' = Resumed(t, "run", "ok")
    /\ UNCHANGED <<made, clock>>

\* the event loop resumes task t after cancel(): CancelledError is raised
\* at the await the task is suspended at, and nothing in run_async catches it
TaskCancelled(t) ==
    /\ tasks[t].state = "pending"
    /\ tasks[t].must_cancel
    /\ Becomes(simulations, running_tasks, heap,
               [tasks EXCEPT ![t] = Ended([task |-> tasks[t], sim |-> heap[tasks[t].sim]], "cancelled").task])
    /\ lastOp' = Resumed(t, "cancelled", tasks[t].pc)
    /\ UNCHANGED <<made, clock>>

Next ==
    \/ Tick
    \/ \E name \in Names : create_simulation(name, MaxTimeSteps)
    \/ \E id \in CallIds, cb \in BOOLEAN : start_simulation(id, cb)
    \/ \E id \in CallIds : stop_simulation(id)
    \/ \E id \in CallIds : delete_simulation(id)
    \/ \E id \in CallIds : control_step(id)
    \/ \E t \in TaskIds : TaskRuns(t)
    \/ \E t \in TaskIds : TaskCancelled(t)

Spec == Init /\ [][Next]_vars

\* The asyncio event loop keeps a queue of the tasks that are ready and runs
\* each of them in turn: a task that was created, whose sleep is over, whose
\* awaited callback has returned or raised, or on which cancel() was called
\* is resumed after the tasks queued before it.
TaskResumed(t) == t \in TaskIds /\ (TaskRuns(t) \/ TaskCancelled(t))

\* the manager after create in second 0 and create in second 1
FairInit ==
    /\ simulations = Put(Put(Empty, <<"a", 0>>, 1), <<"a", 1>>, 2)
    /\ heap = Put(Put(Empty, 1, NewSimulation(SimulationConfig("a", MaxTimeSteps))),
                  2, NewSimulation(SimulationConfig("a", MaxTimeSteps)))
    /\ running_tasks = Empty
    /\ tasks = Empty
    /\ made = [objs |-> 2, tasks |-> 0, steps |-> 0]
    /\ clock = 1
    /\ lastOp = Op("create", <<"a", 1>>, "ok")

\* the tasks that can still be made: two creates and one tick are spent
FairTasks == 1..(MaxEvents - 3)

SpecFair == FairInit /\ [][Next]_vars /\ \A t \in FairTasks : WF_vars(TaskResumed(t))

\* one whole step() in which lines 209-267 computed `raw`
step(s, raw) == StepClockOf(StepFields(s, raw))

\* ------------------------------------------------------------ long runs
\* Two instances were created in seconds 0 and 1 and both were started; the
\* first runs up to MaxRunSteps steps, with or without a streaming callback,
\* the second without one. From here
\* the event loop resumes the two run loops in any order and stop() may
\* cancel either.
RunId == <<"a", 0>>
OtherId == <<"a", 1>>

RunInit ==
    /\ \E total \in 0..MaxRunSteps :
          heap = Put(Put(Empty, 1, NewSimulation(SimulationConfig("a", total))),
                     2, NewSimulation(SimulationConfig("a", MaxTimeSteps)))
    /\ simulations = Put(Put(Empty, RunId, 1), OtherId, 2)
    /\ running_tasks = Put(Put(Empty, RunId, 1), OtherId, 2)
    /\ \E cb \in BOOLEAN :
          tasks = Put(Put(Empty, 1, NewTask(RunId, cb)), 2, NewTask(OtherId, FALSE))
    /\ made = [objs |-> 2, tasks |-> 2, steps |-> 0]
    /\ clock = 1
    /\ lastOp = Op("start", OtherId, "ok")

RunNext ==
    \/ \E t \in TaskIds : TaskRuns(t)
    \/ \E t \in TaskIds : TaskCancelled(t)
    \/ \E id \in CallIds : stop_simulation(id)

SpecRun == RunInit /\ [][RunNext]_vars

\* ------------------------------------------------- the solver, stepped
\* SimulationConfig with the fields the solver reads; the grid is 4 x 3
SolverConfig(kind, position, size, inlet, adaptive, dt, viscosity) ==
    [name |-> "a",
     time_steps |-> MaxTimeSteps,
     grid_size_x |-> 4,
     grid_size_y |-> 3,
     inlet_velocity |-> inlet,
     fluid_density |-> 1,
     viscosity |-> viscosity,
     dt |-> dt,
     obstacle_type |-> kind,
     obstacle_position |-> position,
     obstacle_size |-> size,
     use_adaptive_dt |-> adaptive,
     cfl_number |-> Frac(1, 2)]

\* what predictor, pressure solve and corrector can leave in u, v and p: an
\* ordinary value (2) everywhere but in one cell, which holds NaN, an
\* infinity or a value beyond the velocity limit
RawValues == {NaN, PosInf, NegInf, Fin(-50)}

RawArrays(cells, values) ==
    {[x \in Cells(4, 3) |-> IF x = cell THEN value ELSE Fin(2)] :
        cell \in cells, value \in values}

RawFields(cells, values) ==
    {[u |-> a, v |-> a, p |-> a, u_star |-> a, v_star |-> a] :
        a \in RawArrays(cells, values)}

\* the instance created from config, registered and not started
Created(config) ==
    /\ simulations = Put(Empty, RunId, 1)
    /\ heap = Put(Empty, 1, CFDSimulation(config))
    /\ running_tasks = Empty
    /\ tasks = Empty
    /\ made = [objs |-> 1, tasks |-> 0, steps |-> 0]
    /\ clock = 0
    /\ lastOp = Op("create", RunId, "ok")

\* control_cfd_simulation, action "step", on an instance with its fields
solver_step(id, raw, most) ==
    /\ id \in DOMAIN simulations
    /\ heap[simulations[id]].current_step < most
    /\ heap' = [heap EXCEPT ![simulations[id]] = step(@, raw)]
    /\ made' = [made EXCEPT !.steps = @ + 1]
    /\ lastOp' = Op("step", id, DirectStepResult(id))
    /\ UNCHANGED <<simulations, running_tasks, tasks, clock>>

\* every obstacle kind, of radius 1, at the inlet, in the middle and at the
\* outlet, at the walls and between them, with the flow in either direction
FieldsInit ==
    \E kind \in {"cylinder", "square", "airfoil"},
       px \in {Frac(0, 1), Frac(1, 2), Frac(1, 1)},
       py \in {Frac(0, 1), Frac(1, 2), Frac(1, 1)},
       size \in {Frac(1, 2)},
       inlet \in {-1, 1} :
        Created(SolverConfig(kind, <<px, py>>, size, inlet, TRUE, Frac(1, 10), Frac(1, 100)))

FieldsNext ==
    \E raw \in RawFields(Cells(4, 3), RawValues) : solver_step(RunId, raw, MaxFieldSteps)

SpecFields == FieldsInit /\ [][FieldsNext]_vars

\* time step ceilings below and above the stability limits, with and
\* without adaptive stepping; the fields stay calm or blow up in one cell
DtInit ==
    \E adaptive \in BOOLEAN,
       dt \in {Frac(1, 1000), Frac(1, 10), Frac(1, 1)},
       viscosity \in {Frac(1, 100), Frac(1, 1)} :
        Created(SolverConfig("cylinder", <<Frac(1, 4), Frac(1, 2)>>, Frac(1, 4), 1,
                             adaptive, dt, viscosity))

DtNext ==
    \E raw \in RawFields({<<1, 2>>}, {Fin(1), Fin(2), Fin(4), Fin(50), NaN}) :
        solver_step(RunId, raw, MaxDtSteps)

SpecDt == DtInit /\ [][DtNext]_vars

\* Two instances created from the same configuration in seconds 0 and 1;
\* the run loop of none, of the first or of both was started with a
\* streaming callback. From here either is stepped directly, the event loop
\* resumes the run loops in any order and stop() may cancel them.
PairIds == {RunId, OtherId}

PairInit ==
    \E inlet \in {-1, 1}, adaptive \in BOOLEAN, started \in {{}, {RunId}, PairIds} :
        LET config == SolverConfig("cylinder", <<Frac(1, 4), Frac(1, 2)>>, Frac(1, 4),
                                   inlet, adaptive, Frac(1, 10), Frac(1, 100))
        IN /\ heap = Put(Put(Empty, 1, CFDSimulation(config)), 2, CFDSimulation(config))
           /\ simulations = Put(Put(Empty, RunId, 1), OtherId, 2)
           /\ running_tasks = [id \in started |-> simulations[id]]
           /\ tasks = [t \in {simulations[id] : id \in started} |->
                         NewTask(IF t = 1 THEN RunId ELSE OtherId, TRUE)]
           /\ made = [objs |-> 2, tasks |-> Cardinality(started), steps |-> 0]
           /\ clock = 1
           /\ lastOp = Op("create", OtherId, "ok")

PairNext ==
    \/ \E id \in PairIds : solver_step(id, Solved(heap[simulations[id]]), MaxPairSteps)
    \/ \E t \in TaskIds : TaskRuns(t)
    \/ \E t \in TaskIds : TaskCancelled(t)
    \/ \E id \in PairIds : stop_simulation(id)

SpecPair == PairInit /\ [][PairNext]_vars

\* --------------------------------------------------------------- the views
\* int(np.sqrt(n / d)) for whole numbers n >= 0 and d > 0
IntSqrt(n, d) == CHOOSE k \in 0..n : k * k * d <= n /\ (k + 1) * (k + 1) * d > n

\* range(0, n, stride)
Range(n, stride) == {k \in 0..(n - 1) : k % stride = 0}

\* get_vector_field: step = max(1, int(np.sqrt(total_points / max_vectors)))
Stride(nx, ny, max_vectors) == Max(1, IntSqrt(nx * ny, max_vectors))

\* the cells visited by `for j in range(0, ny, step): for i in range(0, nx, step)`,
\* in that order
Lattice(nx, ny, stride) ==
    LET columns == Cardinality(Range(nx, stride))
        rows == Cardinality(Range(ny, stride))
    IN [k \in 1..(rows * columns) |->
          <<((k - 1) \div columns) * stride, ((k - 1) % columns) * stride>>]

\* a get_vector_field without the `if not self.obstacle_mask[j, i]` test
get_vector_field_NoMaskTest(s, max_vectors) ==
    LET cells == Lattice(s.nx, s.ny, Stride(s.nx, s.ny, max_vectors))
    IN [raised |-> "",
        positions |-> [k \in 1..Len(cells) |->
                         <<Frac(cells[k][2], s.nx), Frac(cells[k][1], s.ny), 0>>],
        vectors |-> [k \in 1..Len(cells) |-> <<s.u[cells[k]], s.v[cells[k]], Fin(0)>>]]

\* get_vector_field: positions [i * dx, j * dy, 0] and vectors [u, v, 0] of
\* the lattice cells outside the obstacle; the magnitudes are not followed
get_vector_field(s, max_vectors) ==
    LET Free(x) == ~s.obstacle_mask[x]
        cells == SelectSeq(Lattice(s.nx, s.ny, Stride(s.nx, s.ny, max_vectors)), Free)
    IN [raised |-> "",
        positions |-> [k \in 1..Len(cells) |->
                         <<Frac(cells[k][2], s.nx), Frac(cells[k][1], s.ny), 0>>],
        vectors |-> [k \in 1..Len(cells) |-> <<s.u[cells[k]], s.v[cells[k]], Fin(0)>>]]

\* A streamline moves 0.01 along the velocity of the cell it is in. A
\* coordinate is kept in hundredths as <<a, b>>, which stands for
\* a + b / sqrt(2): a counts the moves along an axis (v = 0 or u = 0), b the
\* diagonal ones (|u| = |v|). The fields followed here hold no other
\* directions. Real arithmetic stands for the doubles.
Sign(n) == IF n < 0 THEN -1 ELSE IF n > 0 THEN 1 ELSE 0

\* a + b / sqrt(2) >= c
SurdGE(a, b, c) ==
    IF b >= 0
    THEN c - a <= 0 \/ b * b >= 2 * (c - a) * (c - a)
    ELSE c - a < 0 /\ b * b <= 2 * (c - a) * (c - a)

\* coordinate >= c / 100 and coordinate <= c / 100
CoordGE(x, c) == SurdGE(x[1], x[2], c)
CoordLE(x, c) == SurdGE(-x[1], -x[2], -c)

\* the whole part of (a + b / sqrt(2)) / 100 >= 0
Floor100(a, b) ==
    CHOOSE k \in 0..((Abs(a) + Abs(b)) \div 100 + 1) :
        SurdGE(a, b, 100 * k) /\ ~SurdGE(a, b, 100 * (k + 1))

\* int(x * n): truncation towards zero
IntTimes(x, n) ==
    IF CoordGE(x, 0)
    THEN Floor100(x[1] * n, x[2] * n)
    ELSE -Floor100(-(x[1] * n), -(x[2] * n))

\* np.linspace(0.1, 0.9, num_lines), in hundredths
Linspace(num_lines) ==
    [k \in 1..num_lines |->
        IF num_lines = 1 THEN 10 ELSE 10 + (80 * (k - 1)) \div (num_lines - 1)]

\* x += u * dt; y += v * dt with dt = 0.01 / speed
Moved(t, u, v) ==
    CASE v = 0 -> [t EXCEPT !.x = <<@[1] + Sign(u), @[2]>>]
      [] u = 0 -> [t EXCEPT !.y = <<@[1] + Sign(v), @[2]>>]
      [] Abs(u) = Abs(v) -> [t EXCEPT !.x = <<@[1], @[2] + Sign(u)>>,
                                      !.y = <<@[1], @[2] + Sign(v)>>]

\* one iteration of `for _ in range(200)` of get_streamlines; a negative
\* column index counts from the right end of the array and raises
\* IndexError below -nx
TraceOnce(s, t) ==
    IF CoordGE(t.x, 100) \/ CoordLE(t.y, 0) \/ CoordGE(t.y, 100)
    THEN [t EXCEPT !.over = TRUE]
    ELSE LET i == IntTimes(t.x, s.nx)
             j == IntTimes(t.y, s.ny)
             cell == <<j, IF i < 0 THEN i + s.nx ELSE i>>
             added == [t EXCEPT !.line = Append(@, <<t.x, t.y, 0>>)]
         IN IF i >= s.nx \/ j >= s.ny THEN [t EXCEPT !.over = TRUE]
            ELSE IF i < -s.nx THEN [t EXCEPT !.over = TRUE, !.raised = "IndexError"]
            ELSE IF s.obstacle_mask[cell] THEN [t EXCEPT !.over = TRUE]
            ELSE IF s.u[cell].v = 0 /\ s.v[cell].v = 0 THEN [added EXCEPT !.over = TRUE]
            ELSE Moved(added, s.u[cell].v, s.v[cell].v)

\* up to n iterations of the loop (the first half of them, then the rest)
RECURSIVE Trace(_, _, _)
Trace(s, t, n) ==
    IF t.over \/ n = 0 THEN t
    ELSE IF n = 1 THEN TraceOnce(s, t)
    ELSE Trace(s, Trace(s, t, n \div 2), n - (n \div 2))

\* get_streamlines: the lines of more than 2 points, or the IndexError that
\* ends the call
get_streamlines(s, num_lines) ==
    LET traced == [k \in 1..num_lines |->
                     Trace(s, [x |-> <<5, 0>>, y |-> <<Linspace(num_lines)[k], 0>>,
                               line |-> <<>>, over |-> FALSE, raised |-> ""], MaxPoints)]
        Kept(t) == Len(t.line) > 2
        kept == SelectSeq(traced, Kept)
    IN IF \E k \in 1..num_lines : traced[k].raised # ""
       THEN [raised |-> "IndexError", streamlines |-> <<>>]
       ELSE [raised |-> "", streamlines |-> [k \in 1..Len(kept) |-> kept[k].line]]

\* what a view of an unknown id answers (HTTP 404)
NotFound == [raised |-> "NotFound"]

\* a view handler: it answers and assigns nothing
View(op, id, result) ==
    /\ lastOp' = Op(op, id, IF id \in DOMAIN simulations THEN result ELSE NotFound)
    /\ UNCHANGED <<simulations, running_tasks, heap, tasks, made, clock>>

\* GET /api/cfd/simulations/{sim_id}
get_cfd_simulation(id) ==
    View("current_state", id,
         [raised |-> "", state |-> get_current_state(heap[simulations[id]])])

\* GET /api/cfd/simulations/{sim_id}/vectors
get_cfd_vectors(id, max_vectors) ==
    View("vector_field", id, get_vector_field(heap[simulations[id]], max_vectors))

\* GET /api/cfd/simulations/{sim_id}/streamlines
get_cfd_streamlines(id, num_lines) ==
    View("streamlines", id, get_streamlines(heap[simulations[id]], num_lines))

\* One instance, with an obstacle of any kind or none and the flow in
\* either direction, just created or with its run loop started. It is
\* stepped directly and by the run loop, and viewed at any moment.
ViewsInit ==
    \E kind \in {"cylinder", "square", "none"}, inlet \in {-1, 1}, started \in BOOLEAN :
        /\ heap = Put(Empty, 1, CFDSimulation(
                      SolverConfig(kind, <<Frac(1, 2), Frac(1, 2)>>, Frac(1, 2), inlet,
                                   TRUE, Frac(1, 10), Frac(1, 100))))
        /\ simulations = Put(Empty, RunId, 1)
        /\ running_tasks = IF started THEN Put(Empty, RunId, 1) ELSE Empty
        /\ tasks = IF started THEN Put(Empty, 1, NewTask(RunId, TRUE)) ELSE Empty
        /\ made = [objs |-> 1, tasks |-> IF started THEN 1 ELSE 0, steps |-> 0]
        /\ clock = 0
        /\ lastOp = Op(IF started THEN "start" ELSE "create", RunId, "ok")

ViewsNext ==
    \/ \E id \in CallIds : solver_step(id, Solved(heap[simulations[id]]), MaxFieldSteps)
    \/ \E t \in TaskIds : TaskRuns(t)
    \/ \E t \in TaskIds : TaskCancelled(t)
    \/ \E id \in CallIds : stop_simulation(id)
    \/ \E id \in CallIds : get_cfd_simulation(id)
    \/ \E id \in CallIds, max_vectors \in {1, 2, 1000} : get_cfd_vectors(id, max_vectors)
    \/ \E id \in CallIds, num_lines \in {3} : get_cfd_streamlines(id, num_lines)

SpecViews == ViewsInit /\ [][ViewsNext]_vars

TypeOK ==
    /\ clock \in 0..MaxEvents
    /\ DOMAIN simulations \subseteq AllIds
    /\ DOMAIN running_tasks \subseteq AllIds
    /\ Events <= MaxEvents

\* ------------------------------------------------------------------ claims
NothingChanges ==
    /\ simulations' = simulations
    /\ running_tasks' = running_tasks
    /\ tasks' = tasks
    /\ heap' = heap
    /\ made' = made

Called(op, id) == lastOp'.op = op /\ lastOp'.id = id

\* a task that can still execute step(): unfinished and not cancelled
CanStillStep(ts, t) == ts[t].state = "pending" /\ ~ts[t].must_cancel

\* a task on which cancel() was called never steps again: when the event
\* loop resumes it, it ends cancelled and no simulation object changes
CancelledNeverSteps ==
    \A t \in DOMAIN tasks :
        (tasks[t].must_cancel /\ lastOp'.task = t)
            => /\ lastOp'.op = "cancelled"
               /\ \A o \in DOMAIN heap' : heap'[o] = heap[o]

\* C1: start(id) on an id whose registered task is still running fails with
\* Conflict, spawns no second run loop and leaves the instance registry, the
\* task registry and the running task unchanged.
C1_StartWhileRunningConflicts ==
    [][\A id \in AllIds :
          (Called("start", id) /\ is_running(id))
              => lastOp'.result = "Conflict" /\ NothingChanges]_vars

C1_Witness ==
    lastOp.op = "start" /\ lastOp.result = "Conflict" /\ is_running(lastOp.id)

\* C2: start(id) succeeds and registers a new run-loop task whenever id is
\* known and no unfinished task is registered for it, also after the previous
\* run loop has run to completion without stop(id).
C2_StartSucceedsWhenNotRunning ==
    [][\A id \in AllIds :
          (Called("start", id) /\ id \in DOMAIN simulations /\ ~is_running(id))
              => /\ lastOp'.result = "ok"
                 /\ is_running(id)']_vars

\* C3: at most one task that can still execute step() exists for any id, and
\* a task cancelled by stop or delete executes no further step().
C3_AtMostOneRunLoopPerId ==
    [][/\ \A id \in AllIds :
             Cardinality({t \in DOMAIN tasks' :
                             tasks'[t].for_id = id /\ CanStillStep(tasks', t)}) <= 1
       /\ CancelledNeverSteps]_vars

C3_Witness ==
    \E t1 \in DOMAIN tasks, t2 \in DOMAIN tasks :
        /\ tasks[t1].for_id = tasks[t2].for_id
        /\ tasks[t1].state = "pending" /\ tasks[t1].must_cancel
        /\ CanStillStep(tasks, t2) /\ tasks[t2].nsteps >= 1
        /\ lastOp.op = "run" /\ lastOp.task = t2

\* C4: stop(id) on an id with a registered task cancels and deregisters the
\* task and leaves the instance registered with its state intact; a start(id)
\* that follows succeeds and registers a new run-loop task.
C4_StopThenStart ==
    [][\A id \in AllIds :
          /\ (Called("stop", id) /\ id \in DOMAIN running_tasks)
                => /\ id \notin DOMAIN running_tasks'
                   /\ tasks[running_tasks[id]].state = "pending"
                         => /\ running_tasks[id] \in DOMAIN tasks'
                            /\ tasks'[running_tasks[id]].must_cancel
                   /\ id \in DOMAIN simulations'
                   /\ simulations' = simulations
                   /\ heap' = heap
          /\ (lastOp.op = "stop" /\ lastOp.id = id /\ id \in DOMAIN simulations
                /\ Called("start", id))
                => /\ lastOp'.result = "ok"
                   /\ id \in DOMAIN running_tasks'
                   /\ running_tasks'[id] \notin DOMAIN tasks
                   /\ CanStillStep(tasks', running_tasks'[id])
                   /\ tasks'[running_tasks'[id]].sim = simulations[id]]_vars

C4_Witness ==
    /\ lastOp.op = "start" /\ lastOp.result = "ok"
    /\ \E t \in DOMAIN tasks :
          tasks[t].for_id = lastOp.id /\ tasks[t].state = "pending" /\ tasks[t].must_cancel

\* C5: right after create(config) returns id, get(id) is a fresh instance
\* (step counter 0, time 0) and no task is registered or running for id.
C5_CreateIsFresh ==
    lastOp.op = "create"
        => /\ lastOp.id \in DOMAIN simulations
           /\ heap[get_simulation(lastOp.id)].current_step = 0
           /\ heap[get_simulation(lastOp.id)].current_time = 0
           /\ lastOp.id \notin DOMAIN running_tasks
           /\ ~is_running(lastOp.id)

\* C6: cancellation takes effect only at the run loop's await points; a
\* step() in progress runs to completion, so whenever another task can
\* observe an instance (also after a cancellation) its step counter, time and
\* fields belong to the same completed step.
C6_StepBoundary ==
    /\ \A o \in DOMAIN heap :
          /\ heap[o].fields_step = heap[o].current_step
          /\ heap[o].fields_time = heap[o].current_time
    /\ \A t \in DOMAIN tasks :
          tasks[t].state = "pending" => tasks[t].pc \in {"start", "await_cb", "sleep"}
    /\ lastOp.op = "cancelled" => lastOp.result \in {"start", "await_cb", "sleep"}

C6_Witness ==
    /\ lastOp.op = "cancelled" /\ lastOp.result = "await_cb"
    /\ \E o \in DOMAIN heap : heap[o].current_step >= 1

\* C7: delete(id) on a known id stops any task and removes the instance:
\* afterwards get(id) finds nothing, is_running(id) is false, neither registry
\* contains id, and the cancelled run loop performs no further step().
C7_DeleteRemoves ==
    [][/\ \A id \in AllIds :
             (Called("delete", id) /\ id \in DOMAIN simulations)
                 => /\ get_simulation(id)' = 0
                    /\ ~is_running(id)'
                    /\ id \notin DOMAIN simulations'
                    /\ id \notin DOMAIN running_tasks'
                    /\ \A t \in DOMAIN tasks' :
                          tasks'[t].for_id = id => ~CanStillStep(tasks', t)
       /\ CancelledNeverSteps]_vars

C7_Witness ==
    /\ lastOp.op = "delete"
    /\ \E t \in DOMAIN tasks :
          /\ tasks[t].for_id = lastOp.id
          /\ tasks[t].state = "pending" /\ tasks[t].must_cancel /\ tasks[t].nsteps >= 1

\* C8: is_running(id) is true exactly when a task is registered for id and
\* has not finished: it is false for unknown ids, after stop(id), after
\* delete(id) and once the run loop has completed or failed; list() reports
\* "running" for exactly the ids where is_running is true.
C8_IsRunning ==
    /\ \A id \in AllIds :
          /\ id \notin DOMAIN simulations => ~is_running(id)
          /\ is_running(id) => id \in DOMAIN running_tasks
          /\ (id \in DOMAIN running_tasks
                /\ tasks[running_tasks[id]].state \in {"finished", "failed", "cancelled"})
                => ~is_running(id)
          /\ (id \in DOMAIN running_tasks /\ tasks[running_tasks[id]].state = "pending")
                => is_running(id)
    /\ lastOp.op \in {"stop", "delete"} => ~is_running(lastOp.id)
    /\ {r.id : r \in {x \in list_simulations : x.status = "running"}}
          = {id \in AllIds : is_running(id)}

C8_Witness ==
    /\ lastOp.op = "run"
    /\ lastOp.id \in DOMAIN running_tasks
    /\ running_tasks[lastOp.id] = lastOp.task
    /\ tasks[lastOp.task].state \in {"finished", "failed"}

\* C9: start(id) with an unknown id fails with NotFound, registers no task
\* and creates no instance.
C9_StartUnknownNotFound ==
    [][\A id \in AllIds :
          (Called("start", id) /\ id \notin DOMAIN simulations)
              => lastOp'.result = "NotFound" /\ NothingChanges]_vars

C9_Witness ==
    /\ lastOp.op = "start" /\ lastOp.result = "NotFound"
    /\ DOMAIN simulations # {} /\ DOMAIN running_tasks # {}

\* C10: delete(unknown_id), and stop(id) for an id with no registered task,
\* raise no error and leave the instance registry, the task registry and
\* every instance's state unchanged.
C10_NoOps ==
    [][\A id \in AllIds :
          (\/ Called("delete", id) /\ id \notin DOMAIN simulations
           \/ Called("stop", id) /\ id \notin DOMAIN running_tasks)
              => lastOp'.result = "ok" /\ NothingChanges]_vars

C10_Witness ==
    /\ lastOp.op = "stop" /\ lastOp.result = "ok"
    /\ lastOp.id \in DOMAIN simulations
    /\ made.tasks = 0
    /\ heap[simulations[lastOp.id]].current_step >= 1

\* C11 (as claimed): stop(id) and delete(id) called with an unknown id report
\* NotFound to the caller.
C11_StopDeleteUnknownNotFound ==
    [][\A id \in AllIds :
          ((Called("stop", id) \/ Called("delete", id)) /\ id \notin DOMAIN simulations)
              => lastOp'.result = "NotFound"]_vars

\* C11 (amended): stop(id) and delete(id) called with an unknown id raise
\* nothing and report success; of the operations that take an id only
\* start(id) and step(id) report NotFound for an unknown id.
C11_StopDeleteUnknownSucceed ==
    [][\A id \in AllIds :
          id \notin DOMAIN simulations
              => /\ (Called("stop", id) \/ Called("delete", id)) => lastOp'.result = "ok"
                 /\ (Called("start", id) \/ Called("step", id)) => lastOp'.result = "NotFound"]_vars

\* delete of an id of a second that has not come yet, while another instance
\* is registered
C11_Witness ==
    /\ lastOp.op = "delete" /\ lastOp.result = "ok"
    /\ lastOp.id[2] > clock
    /\ DOMAIN simulations # {}

\* the step actions on instance object o in the step just taken: a direct
\* step(id) on it, and the step() calls its run loop completed
DirectStepsOn(o) ==
    IF lastOp'.op = "step" /\ lastOp'.result = "ok" /\ simulations[lastOp'.id] = o
    THEN 1 ELSE 0

RunStepsOn(o) ==
    IF lastOp'.op = "run" /\ tasks[lastOp'.task].sim = o
    THEN tasks'[lastOp'.task].nsteps - tasks[lastOp'.task].nsteps
    ELSE 0

\* C12: step(id) with an unknown id reports NotFound and advances no
\* instance; with a known id it advances that instance, and no other, by
\* exactly one step, whether or not a run-loop task is registered for it.
C12_DirectStep ==
    [][\A id \in AllIds :
          Called("step", id)
              => IF id \in DOMAIN simulations
                 THEN /\ lastOp'.result = "ok"
                      /\ heap'[simulations[id]] = StepOf(heap[simulations[id]])
                      /\ heap'[simulations[id]].current_step
                            = heap[simulations[id]].current_step + 1
                      /\ \A o \in DOMAIN heap \ {simulations[id]} : heap'[o] = heap[o]
                      /\ tasks' = tasks /\ running_tasks' = running_tasks
                 ELSE /\ lastOp'.result = "NotFound"
                      /\ NothingChanges]_vars

\* a direct step on an instance whose run loop is suspended after a step
C12_Witness ==
    /\ lastOp.op = "step" /\ lastOp.result = "ok"
    /\ is_running(lastOp.id)
    /\ tasks[running_tasks[lastOp.id]].sim = simulations[lastOp.id]
    /\ tasks[running_tasks[lastOp.id]].nsteps >= 1
    /\ heap[simulations[lastOp.id]].current_step >= 2

\* C13: every step() call on an instance, direct or from a run loop, raises
\* its step counter by 1 and its time by one dt; counter and time never
\* decrease; no step starts while another step of the instance is in
\* progress; the counter grows by exactly the number of step() calls
\* completed on the instance.
C13_StepsCounted ==
    [][\A o \in DOMAIN heap :
          /\ heap[o].fields_step = heap[o].current_step
          /\ o \in DOMAIN heap'
                => /\ heap'[o].current_step >= heap[o].current_step
                   /\ heap'[o].current_time >= heap[o].current_time
                   /\ heap'[o].current_step - heap[o].current_step
                         = DirectStepsOn(o) + RunStepsOn(o)
                   /\ heap'[o].current_time - heap[o].current_time
                         = heap'[o].current_step - heap[o].current_step
                   /\ heap'[o].fields_step = heap'[o].current_step]_vars

\* an instance stepped both directly and by its run loop
C13_Witness ==
    /\ lastOp.op = "run"
    /\ made.steps >= 1
    /\ tasks[lastOp.task].nsteps >= 1
    /\ tasks[lastOp.task].sim \in DOMAIN heap
    /\ heap[tasks[lastOp.task].sim].current_step >= 2

\* C14: when a run loop runs to completion, the instance's step counter
\* equals config.time_steps, whatever happened to the instance before.
C14_CompletedAtTotal ==
    (/\ lastOp.op = "run"
     /\ tasks[lastOp.task].state = "finished"
     /\ tasks[lastOp.task].sim \in DOMAIN heap)
        => heap[tasks[lastOp.task].sim].current_step
              = heap[tasks[lastOp.task].sim].config.time_steps

\* how often the run loop of a task did `what`
Count(log, what) == Cardinality({i \in 1..Len(log) : log[i][1] = what})

CeilDiv(n, d) == (n + d - 1) \div d

\* C15: in a run loop the callback is invoked in the iterations with
\* step % 10 = 0, a snapshot is appended in those with step % 50 = 0 and
\* control is yielded in those with step % 100 = 0, each after that
\* iteration's step() and in the order callback, snapshot, yield; a run that
\* completes T = config.time_steps steps has made ceil(T/10) callback
\* invocations, ceil(T/50) snapshots and ceil(T/100) yields.
C15_Cadence ==
    \A t \in DOMAIN tasks :
        LET L == tasks[t].log
            T == heap[tasks[t].sim].config.time_steps
            Due(s, every) == s % every = 0
            After(i, what) == i > 1 /\ L[i - 1] = <<what, L[i][2]>>
            Before(i, what) == i < Len(L) /\ L[i + 1] = <<what, L[i][2]>>
        IN /\ \A i \in 1..Len(L) :
                 /\ L[i][1] = "step"
                       => /\ IF i = 1 THEN L[i][2] = 0
                             ELSE L[i - 1][2] = L[i][2] - 1 /\ L[i - 1][1] # "callback"
                          /\ IF tasks[t].callback /\ Due(L[i][2], CallbackEvery)
                             THEN Before(i, "callback")
                             ELSE IF Due(L[i][2], SnapshotEvery)
                             THEN Before(i, "snapshot")
                             ELSE ~Due(L[i][2], YieldEvery)
                 /\ L[i][1] = "callback"
                       => /\ tasks[t].callback /\ Due(L[i][2], CallbackEvery)
                          /\ After(i, "step")
                 /\ L[i][1] = "returned"
                       => /\ After(i, "callback")
                          /\ Due(L[i][2], SnapshotEvery) => Before(i, "snapshot")
                 /\ L[i][1] = "snapshot"
                       => /\ Due(L[i][2], SnapshotEvery)
                          /\ After(i, "step") \/ After(i, "returned")
                          /\ Due(L[i][2], YieldEvery) => Before(i, "yield")
                 /\ L[i][1] = "yield"
                       => /\ Due(L[i][2], YieldEvery)
                          /\ After(i, "snapshot")
           /\ tasks[t].state = "finished"
                 => /\ Count(L, "step") = T
                    /\ Count(L, "callback") = IF tasks[t].callback THEN CeilDiv(T, CallbackEvery) ELSE 0
                    /\ Count(L, "snapshot") = CeilDiv(T, SnapshotEvery)
                    /\ Len(heap[tasks[t].sim].results_history) = CeilDiv(T, SnapshotEvery)
                    /\ Count(L, "yield") = CeilDiv(T, YieldEvery)

\* a completed run of more than 100 steps with a callback
C15_Witness ==
    \E t \in DOMAIN tasks :
        /\ tasks[t].state = "finished" /\ tasks[t].callback
        /\ Count(tasks[t].log, "step") > YieldEvery
        /\ Count(tasks[t].log, "callback") = 11
        /\ Count(tasks[t].log, "snapshot") = 3
        /\ Count(tasks[t].log, "yield") = 2

\* C16: while a callback invocation of a run loop has not returned, that run
\* loop does nothing: the invocation is followed in its record by the
\* callback's return (or failure) and by nothing else, and a run loop
\* suspended in a callback is left as it is by every step of the event loop
\* that resumes another task.
C16_Backpressure ==
    [][\A t \in DOMAIN tasks :
          /\ \A i \in 1..Len(tasks[t].log) :
                (tasks[t].log[i][1] = "callback" /\ i < Len(tasks[t].log))
                    => tasks[t].log[i + 1] \in {<<"returned", tasks[t].log[i][2]>>,
                                                <<"raised", tasks[t].log[i][2]>>}
          /\ (Len(tasks[t].log) > 0 /\ tasks[t].log[Len(tasks[t].log)][1] = "callback")
                => tasks[t].state = "pending" /\ tasks[t].pc = "await_cb"
          /\ (tasks[t].state = "pending" /\ tasks[t].pc = "await_cb"
                /\ lastOp'.task # t /\ t \in DOMAIN tasks')
                => /\ tasks'[t].log = tasks[t].log
                   /\ tasks'[t].nsteps = tasks[t].nsteps
                   /\ tasks'[t].pc = "await_cb"
                   /\ heap'[tasks[t].sim] = heap[tasks[t].sim]]_vars

\* a run loop stalled in its second callback while the run loop of another
\* instance has just stepped
C16_Witness ==
    \E t1 \in DOMAIN tasks, t2 \in DOMAIN tasks :
        /\ tasks[t1].state = "pending" /\ tasks[t1].pc = "await_cb"
        /\ tasks[t1].nsteps > CallbackEvery
        /\ lastOp.op = "run" /\ lastOp.task = t2
        /\ tasks[t2].sim # tasks[t1].sim
        /\ tasks[t2].nsteps >= 1

\* the instance followed in SpecFields and SpecDt
TheSim == heap[simulations[RunId]]
Stepped == lastOp.op = "step" /\ lastOp.result = "ok"

\* C17: after any step(), every cell of the leftmost column, the top and
\* bottom wall rows included, has u = config.inlet_velocity and v = 0.
C17_InletColumn ==
    Stepped
        => \A x \in DOMAIN TheSim.u :
              x[2] = 0 => /\ TheSim.u[x] = Fin(TheSim.config.inlet_velocity)
                          /\ TheSim.v[x] = Fin(0)

\* C18: after every step(), u and v are exactly 0 in every cell of the
\* obstacle mask, for every obstacle kind and position.
C18_ObstacleZero ==
    Stepped
        => \A x \in DOMAIN TheSim.u :
              TheSim.obstacle_mask[x] => TheSim.u[x] = Fin(0) /\ TheSim.v[x] = Fin(0)

\* C19: with adaptive stepping, the dt of every step satisfies
\* 0.5 * dt_prev <= dt <= min(1.2 * dt_prev, config.dt), where dt_prev is
\* the dt of the step before and config.dt for the first step.
C19_TimestepBounds ==
    [][\A o \in DOMAIN heap :
          (heap[o].config.use_adaptive_dt
             /\ heap'[o].current_step = heap[o].current_step + 1)
              => /\ FracLessEq(FracTimes(Frac(5, 10), heap[o].dt), heap'[o].dt)
                 /\ FracLessEq(heap'[o].dt, FracTimes(Frac(12, 10), heap[o].dt))
                 /\ FracLessEq(heap'[o].dt, heap[o].config.dt)
                 /\ heap[o].current_step = 0 => heap[o].dt = heap[o].config.dt]_vars

\* the time step was cut and has grown again, staying under the ceiling
C19_Witness ==
    /\ Stepped
    /\ TheSim.config.use_adaptive_dt
    /\ TheSim.current_step >= 3
    /\ TheSim.dt # TheSim.config.dt
    /\ ~FracLessEq(TheSim.dt, FracTimes(Frac(5, 10), TheSim.config.dt))

\* C20: after every step() no cell of u, v, pressure or vorticity is NaN
\* or infinite and every u and v lies within 10 * inlet_velocity of zero,
\* whatever the predictor, the pressure solve and the corrector produced.
C20_NoNaN ==
    Stepped
        => \A x \in DOMAIN TheSim.u :
              /\ isfinite(TheSim.u[x]) /\ isfinite(TheSim.v[x])
              /\ isfinite(TheSim.p[x]) /\ isfinite(TheSim.vorticity[x])
              /\ Abs(TheSim.u[x].v) <= 10 * Abs(TheSim.config.inlet_velocity)
              /\ Abs(TheSim.v[x].v) <= 10 * Abs(TheSim.config.inlet_velocity)

\* a step whose corrector left an infinite value where the guard put the
\* velocity limit and the pressure limit
C20_Witness ==
    /\ Stepped
    /\ \E x \in DOMAIN TheSim.u :
          /\ Abs(TheSim.u[x].v) = 10 * Abs(TheSim.config.inlet_velocity)
          /\ Abs(TheSim.p[x].v) = 1000

C22_MaskFixed ==
    [][\A o \in DOMAIN heap :
          /\ heap[o].obstacle_mask = _create_obstacle(heap[o].config)
          /\ o \in DOMAIN heap' => heap'[o].obstacle_mask = heap[o].obstacle_mask]_vars

\* streamlines were read from an instance with an obstacle that the run
\* loop and direct steps have stepped
C22_Witness ==
    /\ lastOp.op = "streamlines" /\ lastOp.id = RunId
    /\ made.steps >= 1
    /\ \E t \in DOMAIN tasks : tasks[t].nsteps >= 1
    /\ TheSim.current_step >= 3
    /\ \E x \in DOMAIN TheSim.u : TheSim.obstacle_mask[x]
    /\ \E x \in DOMAIN TheSim.u : ~TheSim.obstacle_mask[x]

\* C23: the intermediate velocity gets the same boundary conditions in the
\* same order as the corrected one, the obstacle last: after a step every
\* obstacle cell is zero in u_star and v_star as in u and v, also where the
\* mask overlaps the inlet column or a wall row.
C23_ObstacleLastInBoth ==
    Stepped
        => \A x \in DOMAIN TheSim.u :
              TheSim.obstacle_mask[x]
                  => /\ TheSim.u_star[x] = Fin(0) /\ TheSim.v_star[x] = Fin(0)
                     /\ TheSim.u[x] = Fin(0) /\ TheSim.v[x] = Fin(0)

\* the point lies in the unit square, and the cell it lies in
InSquare(point) ==
    /\ CoordGE(point[1], 0) /\ CoordLE(point[1], 100)
    /\ CoordGE(point[2], 0) /\ CoordLE(point[2], 100)

CellOf(s, point) == <<IntTimes(point[2], s.ny), IntTimes(point[1], s.nx)>>

\* C24: every streamline that streamlines(num_lines) returns has more than
\* 2 and at most 200 points, each inside the unit square and outside the
\* obstacle, whatever the velocity field (reverse flow included); in the
\* uniform field u = 1, v = 0 without obstacle the line seeded at
\* (0.05, 0.5) is the horizontal line y = 0.5 that ends when x >= 1.0.
C24_Streamlines ==
    (lastOp.op = "streamlines" /\ lastOp.result.raised = "")
        => LET s == heap[simulations[lastOp.id]]
               lines == lastOp.result.streamlines
           IN /\ \A k \in 1..Len(lines) :
                    /\ Len(lines[k]) > 2 /\ Len(lines[k]) <= MaxPoints
                    /\ \A m \in 1..Len(lines[k]) :
                          /\ InSquare(lines[k][m])
                          /\ CellOf(s, lines[k][m]) \in DOMAIN s.obstacle_mask
                          /\ ~s.obstacle_mask[CellOf(s, lines[k][m])]
              /\ (s.current_step = 0 /\ s.config.obstacle_type = "none"
                    /\ s.config.inlet_velocity = 1)
                    => \E k \in 1..Len(lines) :
                          /\ Len(lines[k]) = 95
                          /\ \A m \in 1..95 : lines[k][m] = <<<<4 + m, 0>>, <<50, 0>>, 0>>

\* the values of max_vectors asked for, and the position of a cell
AskedVectors == {1, 2, 4, 12, 1000}
PositionOf(s, x) == <<Frac(x[2], s.nx), Frac(x[1], s.ny), 0>>

\* C25: vector_field(max_vectors) gives no sample in an obstacle cell and
\* exactly one sample, with the cell's u and v, for every other cell of the
\* lattice of stride max(1, floor(sqrt(nx * ny / max_vectors))); so there
\* are at most ceil(nx / stride) * ceil(ny / stride) samples, and on a
\* 200 x 80 grid with max_vectors = 10 that is 10.
C25_VectorField ==
    /\ \A o \in DOMAIN heap : \A max_vectors \in AskedVectors :
          LET s == heap[o]
              view == get_vector_field(s, max_vectors)
              stride == Stride(s.nx, s.ny, max_vectors)
              SamplesAt(x) == {k \in 1..Len(view.positions) :
                                  view.positions[k] = PositionOf(s, x)}
          IN /\ IF max_vectors > s.nx * s.ny THEN stride = 1
                ELSE /\ stride * stride * max_vectors <= s.nx * s.ny
                     /\ (stride + 1) * (stride + 1) * max_vectors > s.nx * s.ny
             /\ Len(view.vectors) = Len(view.positions)
             /\ \A x \in DOMAIN s.u :
                   IF ~s.obstacle_mask[x] /\ x[1] % stride = 0 /\ x[2] % stride = 0
                   THEN /\ Cardinality(SamplesAt(x)) = 1
                        /\ \A k \in SamplesAt(x) : view.vectors[k] = <<s.u[x], s.v[x], Fin(0)>>
                   ELSE SamplesAt(x) = {}
             /\ \A k \in 1..Len(view.positions) :
                   \E x \in DOMAIN s.u : view.positions[k] = PositionOf(s, x)
             /\ Len(view.positions) <= CeilDiv(s.nx, stride) * CeilDiv(s.ny, stride)
    /\ (lastOp.op = "vector_field" /\ lastOp.result.raised = "")
          => \E max_vectors \in AskedVectors :
                lastOp.result = get_vector_field(heap[simulations[lastOp.id]], max_vectors)
    /\ Stride(200, 80, 10) = 40
    /\ Len(Lattice(200, 80, Stride(200, 80, 10))) = 10

\* a view with stride 2 of a stepped instance that skipped the two lattice
\* cells inside the cylinder
C25_Witness ==
    /\ lastOp.op = "vector_field" /\ lastOp.result.raised = ""
    /\ TheSim.current_step >= 1
    /\ TheSim.config.obstacle_type = "cylinder"
    /\ Len(lastOp.result.positions) = 2
    /\ lastOp.result = get_vector_field(TheSim, 2)

\* C26: for the kind "square" a cell (row j, column i) of the grid is in
\* the mask exactly when it lies in the box of half-width radius around
\* (cx, cy), cx - radius <= i < cx + radius and cy - radius <= j < cy + radius,
\* also when the box reaches past an edge of the grid.
C26_SquareClipped ==
    \A o \in DOMAIN heap :
        heap[o].config.obstacle_type = "square"
            => LET cx == IntOf(heap[o].config.obstacle_position[1], heap[o].nx)
                   cy == IntOf(heap[o].config.obstacle_position[2], heap[o].ny)
                   radius == IntOf(heap[o].config.obstacle_size, Min(heap[o].nx, heap[o].ny))
               IN \A x \in DOMAIN heap[o].obstacle_mask :
                     heap[o].obstacle_mask[x]
                         <=> /\ cx - radius <= x[2] /\ x[2] < cx + radius
                             /\ cy - radius <= x[1] /\ x[1] < cy + radius

\* the two stability limits of _calculate_cfl_timestep for the fields of s
ConvectiveOf(s) ==
    FracMin(ConvectiveLimit(s.config.cfl_number, s.nx, MaxAbs(s.u)),
            ConvectiveLimit(s.config.cfl_number, s.ny, MaxAbs(s.v)))

ViscousOf(s) ==
    FracTimes(Frac(1, 4 * Max(s.nx, s.ny) * Max(s.nx, s.ny)),
              Frac(s.config.fluid_density * s.config.viscosity[2], s.config.viscosity[1]))

\* C27: with adaptive stepping the dt of every step exceeds neither the
\* convective limit CFL * min(dx / |u|max, dy / |v|max) nor the viscous
\* limit 0.25 * min(dx^2, dy^2) / nu of the fields the step starts from.
C27_StableDt ==
    [][\A o \in DOMAIN heap :
          (heap[o].config.use_adaptive_dt
             /\ heap'[o].current_step = heap[o].current_step + 1)
              => /\ FracLessEq(heap'[o].dt, ConvectiveOf(heap[o]))
                 /\ FracLessEq(heap'[o].dt, ViscousOf(heap[o]))]_vars

\* C28: in every snapshot of an instance's history the recorded step is
\* the step counter of the embedded state and the recorded time is that
\* state's time, and the recorded steps increase strictly along the list,
\* through any sequence of start, stop, start and direct steps.
C28_SnapshotConsistent ==
    \A o \in DOMAIN heap :
        LET history == heap[o].results_history
        IN \A i \in 1..Len(history) :
              /\ history[i].step = history[i].state.step
              /\ history[i].time = history[i].state.time
              /\ i > 1 => history[i - 1].step < history[i].step

\* C29: every id of the task registry is an id of the instance registry,
\* after any sequence of create, start, stop, delete and run loops that
\* end.
C29_TasksOfInstances ==
    DOMAIN running_tasks \subseteq DOMAIN simulations

\* an instance was deleted while its run loop, started and not yet resumed,
\* was registered
C29_Witness ==
    /\ lastOp.op = "delete"
    /\ lastOp.id \notin DOMAIN simulations /\ lastOp.id \notin DOMAIN running_tasks
    /\ \E t \in DOMAIN tasks :
          tasks[t].for_id = lastOp.id /\ tasks[t].must_cancel /\ tasks[t].pc = "start"

\* C30: with a fair event loop and callbacks that return, every run loop
\* that was started ends: it completes its config.time_steps iterations, or
\* is cancelled (or fails in its callback); and an id that is not running
\* stays not running until a start(id) succeeds.
C30_RunLoopsEnd ==
    /\ \A t \in FairTasks :
          (t \in DOMAIN tasks /\ tasks[t].state = "pending")
              ~> (t \notin DOMAIN tasks \/ tasks[t].state \in {"finished", "cancelled", "failed"})
    /\ [][\A id \in AllIds :
             (~is_running(id) /\ is_running(id)')
                 => Called("start", id) /\ lastOp'.result = "ok"]_vars

\* a run loop with a callback has completed all its iterations and its id
\* is no longer running
C30_Witness ==
    /\ lastOp.op = "run"
    /\ tasks[lastOp.task].state = "finished"
    /\ tasks[lastOp.task].callback
    /\ tasks[lastOp.task].nsteps = MaxTimeSteps
    /\ ~is_running(lastOp.id)

====
